---- MODULE Spec2Model ----
(***************************************************************************)
(* Model of the weather-app in-memory cache (infrastructure/cache.ts):     *)
(* a Ref holding a Map<string, CacheEntry>, with TTL expiry checked on     *)
(* read and eviction of the entry with the lowest accessCount on overflow. *)
(*                                                                         *)
(* Spec     : one caller, every operation runs to completion.              *)
(* SpecConc : several fibers; each Ref.get / Ref.update / Ref.set is one   *)
(*            atomic step and the steps of different fibers interleave.    *)
(* SpecService : the weather service (services/weather-service.ts) calling *)
(*            the cache and the API, next to a direct caller of the cache. *)
(***************************************************************************)
EXTENDS Integers, Sequences, FiniteSets, TLC

VARIABLES config, cacheRef, clock, last, prev, reads, fiber, base

vars == <<config, cacheRef, clock, last, prev, reads, fiber, base>>

(* ------------------------------ bounds -------------------------------- *)

\* the clock takes the values TimeAt(0), ..., TimeAt(MaxTicks)
MaxTicks == 2
\* a hit is only taken while the entry's accessCount is below MaxAccess
MaxAccess == 1

Keys == {"", "a", "b"}
Values == {1, 2}
Fibers == {"f1", "f2"}

\* CacheConfig validates ttlSeconds >= 10 and maxSize >= 1
TtlMin == 10
MaxSizeMin == 1

\* The instants at which the clock is read, in milliseconds as
\* Date.getTime(): 0, then by turns one shortest ttl later and one
\* millisecond later (0, 10000, 10001, 20001, 20002, ...).
TimeAt(i) == ((i + 1) \div 2) * TtlMin * 1000 + (i \div 2)

Times == {TimeAt(i) : i \in 0..MaxTicks}

\* the configurations the cache is constructed with
Configs ==
  [enabled : BOOLEAN, ttlSeconds : {TtlMin},
   maxSize : {MaxSizeMin, MaxSizeMin + 1}]

(* ------------------------- the Map in the Ref -------------------------- *)
\* A JavaScript Map iterates in insertion order: the map is the sequence of
\* its entries, each carrying its key.

CacheEntry(k, v, cachedAt, expiresAt, accessCount) ==
  [key |-> k, value |-> v, cachedAt |-> cachedAt, expiresAt |-> expiresAt,
   accessCount |-> accessCount]

MapHas(s, k) == \E i \in 1..Len(s) : s[i].key = k

MapIndex(s, k) == CHOOSE i \in 1..Len(s) : s[i].key = k

\* the first entry of the map, whatever its key
MapGetFirst(s, k) == s[1]

MapGet(s, k) == s[MapIndex(s, k)]

MapKeys(s) == {s[i].key : i \in 1..Len(s)}

\* s.delete(k)
MapDelete(s, k) == SelectSeq(s, LAMBDA e : e.key # k)

\* s.set(k, e): an existing key keeps its position, a new key goes last
MapSet(s, k, e) ==
  IF MapHas(s, k) THEN [s EXCEPT ![MapIndex(s, k)] = e] ELSE Append(s, e)

(* ------------------------------ errors -------------------------------- *)

CacheMissError(k) == [tag |-> "CacheMissError", key |-> k]

CacheExpiredError(k, cachedAt, expiresAt) ==
  [tag |-> "CacheExpiredError", key |-> k, cachedAt |-> cachedAt,
   expiresAt |-> expiresAt]

CacheFullError(maxSize, currentSize) ==
  [tag |-> "CacheFullError", maxSize |-> maxSize, currentSize |-> currentSize]

Succeed(v) == [tag |-> "value", value |-> v]
Void == [tag |-> "void"]
NoResult == [tag |-> "none"]

(* ------------------------------- get ---------------------------------- *)

\* the expiry test made inclusive: >= instead of >
IsExpiredInclusive(now, entry) == now >= entry.expiresAt

\* now > entry.expiresAt
IsExpired(now, entry) == now > entry.expiresAt

\* lines 156-164: read the Ref, look the key up, test the expiry
getLookup(s, key, now) ==
  IF ~MapHas(s, key)
    THEN [next |-> "miss", entry |-> CacheEntry(key, 0, 0, 0, 0)]
    ELSE LET entry == MapGet(s, key) IN
         IF IsExpired(now, entry)
           THEN [next |-> "expired", entry |-> entry]
           ELSE [next |-> "hit", entry |-> entry]

\* the delete forgotten: the expired entry stays in the map
getDeleteKept(s, key) == s

\* lines 165-168: Ref.update(cacheRef, s => s.delete(key))
getDelete(s, key) == MapDelete(s, key)

\* a read that pushes the expiry of the entry back
getTouchExtend(s, key) ==
  IF MapHas(s, key)
    THEN [s EXCEPT ![MapIndex(s, key)].accessCount = @ + 1,
                   ![MapIndex(s, key)].expiresAt = @ + 1]
    ELSE s

\* the increment made on a copy and never written back
getTouchLost(s, key) == s

\* lines 178-184: Ref.update(cacheRef, s => s.get(key)?.accessCount++)
getTouch(s, key) ==
  IF MapHas(s, key)
    THEN [s EXCEPT ![MapIndex(s, key)].accessCount = @ + 1]
    ELSE s

\* the two failures exchanged
getResultSwapped(key, l) ==
  CASE l.next = "expired" -> [tag |-> "CacheMissError", key |-> key]
    [] l.next = "miss" ->
         [tag |-> "CacheExpiredError", key |-> key,
          cachedAt |-> l.entry.cachedAt, expiresAt |-> l.entry.expiresAt]
    [] OTHER -> [tag |-> "value", value |-> l.entry.value]

\* what get fails or succeeds with, from what the lookup captured
getResult(key, l) ==
  CASE l.next = "miss" -> CacheMissError(key)
    [] l.next = "expired" ->
         CacheExpiredError(key, l.entry.cachedAt, l.entry.expiresAt)
    [] OTHER -> Succeed(l.entry.value)

(* ------------------------------- set ---------------------------------- *)

\* lruKey: string | null is <<>> for null and <<k>> for the key k
Null == <<>>

\* if (lruKey): null and the empty string are both falsy
Truthy(lruKey) == lruKey # Null /\ lruKey[1] # ""

\* the candidate replaced on an equal count too: <= instead of <
RECURSIVE lruScanLast(_, _, _)
lruScanLast(s, i, acc) ==
  IF i > Len(s) THEN acc
  ELSE IF acc.inf \/ s[i].accessCount <= acc.min
    THEN lruScanLast(s, i + 1,
                     [lruKey |-> <<s[i].key>>, min |-> s[i].accessCount,
                      inf |-> FALSE])
    ELSE lruScanLast(s, i + 1, acc)

\* the comparison reversed: the scan keeps the highest accessCount
RECURSIVE lruScanMax(_, _, _)
lruScanMax(s, i, acc) ==
  IF i > Len(s) THEN acc
  ELSE IF acc.inf \/ s[i].accessCount > acc.min
    THEN lruScanMax(s, i + 1,
                    [lruKey |-> <<s[i].key>>, min |-> s[i].accessCount,
                     inf |-> FALSE])
    ELSE lruScanMax(s, i + 1, acc)

\* lines 217-225: the scan, minAccessCount starting at Infinity
RECURSIVE lruScan(_, _, _)
lruScan(s, i, acc) ==
  IF i > Len(s) THEN acc
  ELSE IF acc.inf \/ s[i].accessCount < acc.min
    THEN lruScan(s, i + 1,
                 [lruKey |-> <<s[i].key>>, min |-> s[i].accessCount,
                  inf |-> FALSE])
    ELSE lruScan(s, i + 1, acc)

findLru(s) == lruScan(s, 1, [lruKey |-> Null, min |-> 0, inf |-> TRUE]).lruKey

\* the membership test reversed: a present key counts as a new one
isFullHasKey(cfg, s, key) == Len(s) >= cfg.maxSize /\ MapHas(s, key)

\* the capacity test without the membership test
isFullAnyKey(cfg, s, key) == Len(s) >= cfg.maxSize

\* the capacity test off by one: > instead of >=
isFullOffByOne(cfg, s, key) == Len(s) > cfg.maxSize /\ ~MapHas(s, key)

\* line 216: state.size >= config.maxSize && !state.has(key)
isFull(cfg, s, key) == Len(s) >= cfg.maxSize /\ ~MapHas(s, key)

\* the enabled test left out
setLookupAlways(cfg, s, key) ==
  IF isFull(cfg, s, key)
    THEN LET lruKey == findLru(s) IN
         IF Truthy(lruKey)
           THEN [next |-> "evict", lruKey |-> lruKey]
           ELSE [next |-> "full", lruKey |-> lruKey]
    ELSE [next |-> "store", lruKey |-> Null]

\* lines 210-240: the enabled test, the read of the Ref, the capacity test
\* and the scan
setLookup(cfg, s, key) ==
  IF ~cfg.enabled THEN [next |-> "return", lruKey |-> Null]
  ELSE IF isFull(cfg, s, key)
    THEN LET lruKey == findLru(s) IN
         IF Truthy(lruKey)
           THEN [next |-> "evict", lruKey |-> lruKey]
           ELSE [next |-> "full", lruKey |-> lruKey]
    ELSE [next |-> "store", lruKey |-> Null]

\* lines 228-231: Ref.update(cacheRef, s => s.delete(lruKey))
setEvict(s, lruKey) == MapDelete(s, lruKey[1])

\* the ttl added in seconds to a time in milliseconds
newEntrySeconds(cfg, key, value, now) ==
  CacheEntry(key, value, now, now + cfg.ttlSeconds, 0)

\* lines 242-250: the entry built from the clock and the ttl
newEntry(cfg, key, value, now) ==
  CacheEntry(key, value, now, now + cfg.ttlSeconds * 1000, 0)

\* an overwrite that keeps the times of the entry it replaces
setStoreKeepTimes(s, key, entry) ==
  IF MapHas(s, key)
    THEN MapSet(s, key,
                [entry EXCEPT !.cachedAt = MapGet(s, key).cachedAt,
                              !.expiresAt = MapGet(s, key).expiresAt])
    ELSE MapSet(s, key, entry)

\* an overwrite that keeps the accessCount of the entry it replaces
setStoreKeepCount(s, key, entry) ==
  IF MapHas(s, key)
    THEN MapSet(s, key,
                [entry EXCEPT !.accessCount = MapGet(s, key).accessCount])
    ELSE MapSet(s, key, entry)

\* lines 252-255: Ref.update(cacheRef, s => s.set(key, entry))
setStore(s, key, entry) == MapSet(s, key, entry)

(* ------------------- whole operations as functions --------------------- *)
\* The state and the outcome of an operation that runs to completion on the
\* map s at the time now.

getRun(s, key, now) ==
  LET l == getLookup(s, key, now) IN
  [state |-> CASE l.next = "miss" -> s
               [] l.next = "expired" -> getDelete(s, key)
               [] OTHER -> getTouch(s, key),
   result |-> getResult(key, l)]

setRun(cfg, s, key, value, now) ==
  LET l == setLookup(cfg, s, key)
      evicted == IF l.next = "evict" THEN setEvict(s, l.lruKey) ELSE s
  IN
  [state |-> IF l.next \in {"evict", "store"}
               THEN setStore(evicted, key, newEntry(cfg, key, value, now))
               ELSE s,
   result |-> IF l.next = "full"
                THEN CacheFullError(cfg.maxSize, Len(s))
                ELSE Void]

\* the Ref set to the map it already holds
clearRunKept(s) == [state |-> s, result |-> Void]

\* line 271: Ref.set(cacheRef, new Map())
clearRun(s) == [state |-> <<>>, result |-> Void]

\* line 286: Ref.get(cacheRef).pipe(Effect.map(s => s.size))
sizeRun(s) == [state |-> s, result |-> Succeed(Len(s))]

(* ------- services/weather-service.ts: the caller of the cache ---------- *)

\* Location.id is a string; the readings of the API are the Values
LocationIds == {"1", "2"}

\* the errors of WeatherApi.getCurrentWeather
ApiErrors == {"NetworkError", "HttpError", "RateLimitError",
              "InvalidResponseError", "TimeoutError"}

\* what one call of the API gives: a reading or one of its errors
ApiOutcomes == {Succeed(v) : v \in Values} \cup {[tag |-> e] : e \in ApiErrors}

\* `weather:${location.id}`
cacheKey(id) == "weather:" \o id

\* Effect.succeed(null)
NullResult == [tag |-> "null"]

\* only CacheMissError is recovered
catchTagsMissOnly(r) ==
  IF r.tag = "CacheMissError" THEN NullResult ELSE r

\* Effect.catchTags({ CacheMissError: ..., CacheExpiredError: ... })
catchTags(r) ==
  IF r.tag \in {"CacheMissError", "CacheExpiredError"} THEN NullResult ELSE r

\* the failure of the effect is kept
catchAllKept(r) == r

\* Effect.catchAll(() => Effect.void)
catchAll(r) == IF r.tag \in {"value", "void", "null"} THEN r ELSE Void

\* one call made by the service: of the cache (on a key) or of the API (on a
\* location id), with the value passed or returned and the tag of the result
Call(op, key, value, tag) ==
  [op |-> op, key |-> key, value |-> value, tag |-> tag]

\* the call of op in calls (with tag "none" when op was not called)
CallOf(calls, op) ==
  IF \E i \in 1..Len(calls) : calls[i].op = op
  THEN calls[CHOOSE i \in 1..Len(calls) : calls[i].op = op]
  ELSE Call(op, "", 0, "none")

TagOf(calls, op) == CallOf(calls, op).tag

ApiCall(id, api) ==
  Call("api", id, IF api.tag = "value" THEN api.value ELSE 0, api.tag)

\* a failure of the API drops the entry of the key
fetchAndStoreInvalidate(cfg, s, id, key, api, later, calls) ==
  IF api.tag # "value"
  THEN [state |-> MapDelete(s, key), result |-> api,
        calls |-> Append(calls, ApiCall(id, api))]
  ELSE LET st == setRun(cfg, s, key, api.value, later)
           stored == catchAll(st.result)
       IN [state |-> st.state,
           result |-> IF stored.tag = "void" THEN api ELSE stored,
           calls |-> calls \o <<ApiCall(id, api),
                                Call("set", key, api.value, st.result.tag)>>]

\* lines 169-175 and 207-214: the API is called at now and answers api at
\* later; a reading is stored under key and returned
fetchAndStore(cfg, s, id, key, api, later, calls) ==
  IF api.tag # "value"
  THEN [state |-> s, result |-> api, calls |-> Append(calls, ApiCall(id, api))]
  ELSE LET st == setRun(cfg, s, key, api.value, later)
           stored == catchAll(st.result)
       IN [state |-> st.state,
           result |-> IF stored.tag = "void" THEN api ELSE stored,
           calls |-> calls \o <<ApiCall(id, api),
                                Call("set", key, api.value, st.result.tag)>>]

\* lines 155-176
getCurrentWeatherRun(cfg, s, id, now, api, later) ==
  LET key == cacheKey(id)
      g == getRun(s, key, now)
      cached == catchTags(g.result)
      calls == <<Call("get", key, 0, g.result.tag)>>
  IN IF cached.tag # "null"
     THEN [state |-> g.state, result |-> cached, calls |-> calls]
     ELSE fetchAndStore(cfg, g.state, id, key, api, later, calls)

\* the cache is asked first, as in getCurrentWeather
refreshWeatherRunCached(cfg, s, id, api, later) ==
  getCurrentWeatherRun(cfg, s, id, later, api, later)

\* lines 206-215
refreshWeatherRun(cfg, s, id, api, later) ==
  fetchAndStore(cfg, s, id, cacheKey(id), api, later, <<>>)

(* --------------------------- initial state ----------------------------- *)

\* last is the most recent call, made at the current time of the clock
\* (NoOp when the clock has moved since the last call), prev the call before
\* it: pre is the map before the call, calls the calls that a call of the
\* weather service made
NoOp == [op |-> "none", key |-> "", value |-> 0, result |-> NoResult,
         pre |-> <<>>, calls |-> <<>>]

\* the keys of the callers of the cache
CacheKeys == Keys \cup {cacheKey(id) : id \in LocationIds}

\* (cleared: the keys a clear found in the map; stored: the call of the
\* weather service made a cache.set that succeeded)
Summary(l) == [op |-> l.op, key |-> l.key, value |-> l.value,
               tag |-> l.result.tag,
               cleared |-> IF l.op = "clear" THEN MapKeys(l.pre) ELSE {},
               stored |-> TagOf(l.calls, "set") = "void"]

NoEntry == CacheEntry("", 0, 0, 0, 0)

\* a fiber between two calls: no operation, no locals
Idle == [pc |-> "idle", op |-> "none", key |-> "", value |-> 0,
         next |-> "none", lruKey |-> Null, entry |-> NoEntry,
         result |-> NoResult]

Init ==
  /\ config \in Configs
  /\ cacheRef = <<>>
  /\ clock = 0
  /\ last = NoOp
  /\ prev = Summary(NoOp)
  /\ reads = [k \in CacheKeys |-> 0]
  /\ fiber = [f \in Fibers |-> Idle]
  /\ base = [cache |-> <<>>, clock |-> 0, raced |-> FALSE]

(* --------------------- one caller: whole operations -------------------- *)

\* reads counts, for each key in the map, the gets of the key that have
\* succeeded since the key was last stored (0 for a key not in the map):
\* the counter r after a call on key that left the map s
Counted(r, s, key, stored, read) ==
  [k \in DOMAIN r |->
     IF ~MapHas(s, k) \/ (k = key /\ stored) THEN 0
     ELSE IF k = key /\ read THEN r[k] + 1
     ELSE r[k]]

Record(op, key, value, result) ==
  /\ last' = [op |-> op, key |-> key, value |-> value, result |-> result,
              pre |-> cacheRef, calls |-> <<>>]
  /\ prev' = Summary(last)
  /\ reads' = Counted(reads, cacheRef', key,
                      op = "set" /\ config.enabled /\ result.tag = "void",
                      op = "get" /\ result.tag = "value")

\* a hit is taken only while the counter is below MaxAccess
BelowMaxAccess(s, key, now) ==
  LET l == getLookup(s, key, now) IN
  l.next = "hit" => l.entry.accessCount < MaxAccess

get(key) ==
  LET r == getRun(cacheRef, key, clock) IN
  /\ BelowMaxAccess(cacheRef, key, clock)
  /\ cacheRef' = r.state
  /\ Record("get", key, 0, r.result)
  /\ UNCHANGED <<config, clock, fiber, base>>

set(key, value) ==
  LET r == setRun(config, cacheRef, key, value, clock) IN
  /\ cacheRef' = r.state
  /\ Record("set", key, value, r.result)
  /\ UNCHANGED <<config, clock, fiber, base>>

clear ==
  LET r == clearRun(cacheRef) IN
  /\ cacheRef' = r.state
  /\ Record("clear", "", 0, r.result)
  /\ UNCHANGED <<config, clock, fiber, base>>

size ==
  LET r == sizeRun(cacheRef) IN
  /\ cacheRef' = r.state
  /\ Record("size", "", 0, r.result)
  /\ UNCHANGED <<config, clock, fiber, base>>

\* time passes and a sweep removes the entries whose ttl has elapsed
TickSweep ==
  /\ \E t \in Times :
       /\ t > clock
       /\ clock' = t
       /\ cacheRef' = SelectSeq(cacheRef, LAMBDA e : ~(t > e.expiresAt))
  /\ last' = NoOp
  /\ prev' = Summary(NoOp)
  /\ reads' = [k \in DOMAIN reads |->
                 IF MapHas(cacheRef', k) THEN reads[k] ELSE 0]
  /\ UNCHANGED <<config, fiber, base>>

\* time passes
Tick ==
  /\ \E t \in Times : t > clock /\ clock' = t
  /\ last' = NoOp
  /\ prev' = Summary(NoOp)
  /\ UNCHANGED <<config, cacheRef, reads, fiber, base>>

Next ==
  \/ \E key \in Keys : get(key)
  \/ \E key \in Keys, value \in Values : set(key, value)
  \/ clear
  \/ size
  \/ Tick

Spec == Init /\ [][Next]_vars

(* ---------- the weather service and other callers of the cache --------- *)

\* a call of the service on location id, for last and reads: the reading
\* of the API is the value of the call
RecordService(op, id, r) ==
  /\ last' = [op |-> op, key |-> id,
              value |-> CallOf(r.calls, "api").value,
              result |-> r.result, pre |-> cacheRef, calls |-> r.calls]
  /\ prev' = Summary(last)
  /\ reads' = Counted(reads, cacheRef', cacheKey(id),
                      config.enabled /\ TagOf(r.calls, "set") = "void",
                      TagOf(r.calls, "get") = "value")

\* time passes while the API is called, and only then
getCurrentWeather(id) ==
  \E api \in ApiOutcomes, later \in Times :
    LET r == getCurrentWeatherRun(config, cacheRef, id, clock, api, later) IN
    /\ later >= clock
    /\ later # clock => TagOf(r.calls, "api") # "none"
    /\ BelowMaxAccess(cacheRef, cacheKey(id), clock)
    /\ cacheRef' = r.state
    /\ clock' = later
    /\ RecordService("getCurrentWeather", id, r)
    /\ UNCHANGED <<config, fiber, base>>

refreshWeather(id) ==
  \E api \in ApiOutcomes, later \in Times :
    LET r == refreshWeatherRun(config, cacheRef, id, api, later) IN
    /\ later >= clock
    /\ cacheRef' = r.state
    /\ clock' = later
    /\ RecordService("refreshWeather", id, r)
    /\ UNCHANGED <<config, fiber, base>>

\* the service, next to a caller that uses the Cache service directly and
\* stores under the empty key
NextService ==
  \/ \E id \in LocationIds : getCurrentWeather(id)
  \/ \E id \in LocationIds : refreshWeather(id)
  \/ \E value \in Values : set("", value)
  \/ Tick

\* the smallest cache: one location evicts the other
InitService == Init /\ config.maxSize = MaxSizeMin

SpecService == InitService /\ [][NextService]_vars

(* ------------- several fibers: one step per Ref operation -------------- *)
\* A fiber runs the synchronous code up to its next Ref operation in one
\* step; the Ref operations of different fibers interleave.  base is the
\* map and the clock at the last moment at which no call was in flight.
\* The callers make their calls one at a time, except in one round, in
\* which their calls overlap (base.raced says that this round is over).

Running(f) == fiber[f].pc \notin {"idle", "done"}

CanStart(f) ==
  /\ fiber[f].pc = "idle"
  /\ base.raced => \A g \in Fibers : fiber[g].pc = "idle"

Finish(f, result) ==
  [fiber[f] EXCEPT !.pc = "done", !.result = result]

\* lines 156-164: Ref.get, the lookup and the expiry test
GetStart(f, key) ==
  LET l == getLookup(cacheRef, key, clock) IN
  /\ CanStart(f)
  /\ BelowMaxAccess(cacheRef, key, clock)
  /\ fiber' = [fiber EXCEPT ![f] =
       [pc |-> CASE l.next = "miss" -> "done"
                 [] l.next = "expired" -> "get_delete"
                 [] OTHER -> "get_touch",
        op |-> "get", key |-> key, value |-> 0, next |-> l.next,
        lruKey |-> Null, entry |-> l.entry,
        result |-> IF l.next = "miss" THEN getResult(key, l) ELSE NoResult]]
  /\ UNCHANGED <<config, cacheRef, clock, last, prev, reads, base>>

\* lines 165-175: the delete, then the failure with the captured entry
GetDelete(f) ==
  /\ fiber[f].pc = "get_delete"
  /\ cacheRef' = getDelete(cacheRef, fiber[f].key)
  /\ fiber' = [fiber EXCEPT ![f] =
       Finish(f, getResult(fiber[f].key,
                           [next |-> fiber[f].next,
                            entry |-> fiber[f].entry]))]
  /\ UNCHANGED <<config, clock, last, prev, reads, base>>

\* lines 178-186: the increment, then the captured entry's value
GetTouch(f) ==
  /\ fiber[f].pc = "get_touch"
  /\ cacheRef' = getTouch(cacheRef, fiber[f].key)
  /\ fiber' = [fiber EXCEPT ![f] =
       Finish(f, getResult(fiber[f].key,
                           [next |-> fiber[f].next,
                            entry |-> fiber[f].entry]))]
  /\ UNCHANGED <<config, clock, last, prev, reads, base>>

\* lines 210-250: up to the first Ref.update of set
SetStart(f, key, value) ==
  LET l == setLookup(config, cacheRef, key) IN
  /\ CanStart(f)
  /\ fiber' = [fiber EXCEPT ![f] =
       [pc |-> CASE l.next = "evict" -> "set_evict"
                 [] l.next = "store" -> "set_store"
                 [] OTHER -> "done",
        op |-> "set", key |-> key, value |-> value, next |-> l.next,
        lruKey |-> l.lruKey,
        entry |-> IF l.next = "store"
                    THEN newEntry(config, key, value, clock) ELSE NoEntry,
        result |-> CASE l.next = "full" ->
                          CacheFullError(config.maxSize, Len(cacheRef))
                     [] l.next = "return" -> Void
                     [] OTHER -> NoResult]]
  /\ UNCHANGED <<config, cacheRef, clock, last, prev, reads, base>>

\* lines 228-250: the eviction, then the entry built from the clock
SetEvict(f) ==
  /\ fiber[f].pc = "set_evict"
  /\ cacheRef' = setEvict(cacheRef, fiber[f].lruKey)
  /\ fiber' = [fiber EXCEPT ![f] =
       [fiber[f] EXCEPT !.pc = "set_store",
          !.entry = newEntry(config, fiber[f].key, fiber[f].value, clock)]]
  /\ UNCHANGED <<config, clock, last, prev, reads, base>>

\* lines 252-255: the insert
SetStore(f) ==
  /\ fiber[f].pc = "set_store"
  /\ cacheRef' = setStore(cacheRef, fiber[f].key, fiber[f].entry)
  /\ fiber' = [fiber EXCEPT ![f] = Finish(f, Void)]
  /\ UNCHANGED <<config, clock, last, prev, reads, base>>

Clear(f) ==
  LET r == clearRun(cacheRef) IN
  /\ CanStart(f)
  /\ cacheRef' = r.state
  /\ fiber' = [fiber EXCEPT ![f] =
       [Idle EXCEPT !.pc = "done", !.op = "clear", !.result = r.result]]
  /\ UNCHANGED <<config, clock, last, prev, reads, base>>

Size(f) ==
  LET r == sizeRun(cacheRef) IN
  /\ CanStart(f)
  /\ cacheRef' = r.state
  /\ fiber' = [fiber EXCEPT ![f] =
       [Idle EXCEPT !.pc = "done", !.op = "size", !.result = r.result]]
  /\ UNCHANGED <<config, clock, last, prev, reads, base>>

\* every call has returned: the callers take their results
Quiescent == \A f \in Fibers : ~Running(f)

Done == {f \in Fibers : fiber[f].pc = "done"}

Settle ==
  /\ Quiescent
  /\ Done # {}
  /\ fiber' = [f \in Fibers |-> Idle]
  /\ base' = [cache |-> cacheRef, clock |-> clock,
              raced |-> base.raced \/ Cardinality(Done) > 1]
  /\ UNCHANGED <<config, cacheRef, clock, last, prev, reads>>

NextConc ==
  \/ \E f \in Fibers, key \in Keys : GetStart(f, key)
  \/ \E f \in Fibers : GetDelete(f)
  \/ \E f \in Fibers : GetTouch(f)
  \/ \E f \in Fibers, key \in Keys, value \in Values : SetStart(f, key, value)
  \/ \E f \in Fibers : SetEvict(f)
  \/ \E f \in Fibers : SetStore(f)
  \/ \E f \in Fibers : Clear(f)
  \/ \E f \in Fibers : Size(f)
  \/ Settle
  \/ Tick

\* the concurrent callers share a cache of the smallest capacity
InitConc == Init /\ config.maxSize = MaxSizeMin

SpecConc == InitConc /\ [][NextConc]_vars

(* ------------------------------ properties ----------------------------- *)
\* In Spec, last is the most recent call (the map before it in last.pre),
\* made at the time clock, prev the call before it at the same time, and
\* cacheRef the map the most recent call left.

TtlMs == config.ttlSeconds * 1000

\* C1: with the cache enabled and ttlSeconds > 0, a get(k) that directly
\* follows a set(k, v), the clock not having moved, succeeds and returns v,
\* whatever the map held before the set.
C1_RoundTrip ==
  ( /\ config.enabled
    /\ config.ttlSeconds > 0
    /\ prev.op = "set"
    /\ last.op = "get"
    /\ last.key = prev.key )
  => (last.result.tag = "value" /\ last.result.value = prev.value)

\* C2: a get of a key that is not in the map fails with CacheMissError
\* carrying that key, and leaves the map as it was.
C2_MissOnAbsent ==
  (last.op = "get" /\ ~MapHas(last.pre, last.key))
  => /\ last.result.tag = "CacheMissError"
     /\ last.result.key = last.key
     /\ cacheRef = last.pre

C2_Witness ==
  /\ last.op = "get"
  /\ last.pre # <<>>
  /\ ~MapHas(last.pre, last.key)
  /\ last.result.tag = "CacheMissError"

\* C3: a set(k, v) at t0 stores k with cachedAt = t0 and expiresAt = t0 + T;
\* a get(k) at a time later than t0 + T, the entry still being the stored
\* one, fails with CacheExpiredError(k, t0, t0 + T) and removes k; the get(k)
\* after that fails with CacheMissError(k).
C3_ExpiredThenMiss ==
  /\ (last.op = "set" /\ config.enabled /\ last.result.tag = "void")
     => /\ MapHas(cacheRef, last.key)
        /\ MapGet(cacheRef, last.key).cachedAt = clock
        /\ MapGet(cacheRef, last.key).expiresAt = clock + TtlMs
  /\ ( /\ last.op = "get"
       /\ MapHas(last.pre, last.key)
       /\ clock > MapGet(last.pre, last.key).cachedAt + TtlMs )
     => LET e == MapGet(last.pre, last.key) IN
        /\ last.result.tag = "CacheExpiredError"
        /\ last.result.key = last.key
        /\ last.result.cachedAt = e.cachedAt
        /\ last.result.expiresAt = e.cachedAt + TtlMs
        /\ ~MapHas(cacheRef, last.key)
  /\ ( /\ prev.op = "get"
       /\ prev.tag = "CacheExpiredError"
       /\ last.op = "get"
       /\ last.key = prev.key )
     => /\ last.result.tag = "CacheMissError"
        /\ last.result.key = last.key

C3_Witness ==
  /\ prev.op = "get"
  /\ prev.tag = "CacheExpiredError"
  /\ last.op = "get"
  /\ last.key = prev.key
  /\ last.result.tag = "CacheMissError"

\* C4: right after a set has completed the map holds at most maxSize
\* entries.
C4_AtMostMaxSize == last.op = "set" => Len(cacheRef) <= config.maxSize

C4_Witness ==
  /\ last.op = "set"
  /\ config.enabled
  /\ Len(last.pre) = config.maxSize
  /\ ~MapHas(last.pre, last.key)
  /\ MapHas(cacheRef, last.key)
  /\ Len(cacheRef) = config.maxSize

\* C5: a set of a new key into a map below capacity succeeds and adds the
\* key (so that maxSize distinct keys fill an empty cache); a set of a
\* further new key succeeds, stores it, removes exactly one stored key and
\* leaves the size at maxSize.
C5_FillThenEvictOne ==
  (last.op = "set" /\ config.enabled /\ ~MapHas(last.pre, last.key))
  => /\ last.result.tag = "void"
     /\ MapHas(cacheRef, last.key)
     /\ IF Len(last.pre) < config.maxSize
          THEN /\ Len(cacheRef) = Len(last.pre) + 1
               /\ MapKeys(last.pre) \subseteq MapKeys(cacheRef)
          ELSE /\ Len(cacheRef) = config.maxSize
               /\ Cardinality(MapKeys(last.pre) \ MapKeys(cacheRef)) = 1

\* C6: an entry that a set evicts has the lowest accessCount of the entries
\* the map held: no entry with more reads than another one is the victim.
C6_EvictsMinimum ==
  last.op = "set" =>
    \A i \in 1..Len(last.pre) :
      ~MapHas(cacheRef, last.pre[i].key) =>
        \A j \in 1..Len(last.pre) :
          last.pre[i].accessCount <= last.pre[j].accessCount

\* a never-read entry is evicted although an entry inserted before it, and
\* read since, is in the map
C6_Witness ==
  /\ last.op = "set"
  /\ \E i, j \in 1..Len(last.pre) :
       /\ j < i
       /\ last.pre[j].accessCount > last.pre[i].accessCount
       /\ ~MapHas(cacheRef, last.pre[i].key)
       /\ MapHas(cacheRef, last.pre[j].key)

\* The calls of a round, run one after the other in some order from the map
\* s, give the results the fibers got and the map the round left.
RunOf(f, s) ==
  CASE fiber[f].op = "get" -> getRun(s, fiber[f].key, clock)
    [] fiber[f].op = "set" ->
         setRun(config, s, fiber[f].key, fiber[f].value, clock)
    [] fiber[f].op = "clear" -> clearRun(s)
    [] OTHER -> sizeRun(s)

RECURSIVE SomeOrder(_, _)
SomeOrder(F, s) ==
  IF F = {} THEN s = cacheRef
  ELSE \E f \in F :
         LET r == RunOf(f, s) IN
         /\ r.result.tag = fiber[f].result.tag
         /\ r.result = fiber[f].result
         /\ SomeOrder(F \ {f}, r.state)

\* C7: the calls that overlap take effect one at a time: when all of them
\* have returned (the clock not having moved meanwhile), their results and
\* the map are those of the same calls made one after the other in some
\* order.
C7_Linearizable ==
  (Quiescent /\ base.clock = clock) => SomeOrder(Done, base.cache)

\* C8: two overlapping sets of two distinct new keys on a map that is
\* exactly at capacity leave at most maxSize entries.
C8_RacingSetsWithinCapacity ==
  \A f, g \in Fibers :
    ( /\ f # g
      /\ fiber[f].pc = "done" /\ fiber[g].pc = "done"
      /\ fiber[f].op = "set" /\ fiber[g].op = "set"
      /\ fiber[f].key # fiber[g].key
      /\ ~MapHas(base.cache, fiber[f].key)
      /\ ~MapHas(base.cache, fiber[g].key)
      /\ config.enabled
      /\ Len(base.cache) = config.maxSize )
    => Len(cacheRef) <= config.maxSize

\* C9: a set of a new key on a non-empty map at capacity finds a victim and
\* never fails with CacheFullError, whatever the keys are.
C9_NeverFullWhenNonEmpty ==
  ( /\ last.op = "set"
    /\ last.pre # <<>>
    /\ Len(last.pre) >= config.maxSize
    /\ ~MapHas(last.pre, last.key) )
  => last.result.tag # "CacheFullError"

\* C10: set fails with CacheFullError exactly when the capacity test
\* triggers and the map has no entry to evict; the error carries maxSize and
\* the size of the map, and the map is left as it was.
C10_FullOnlyWithoutVictim ==
  last.op = "set" =>
    /\ last.result.tag = "CacheFullError"
       <=> ( /\ config.enabled
             /\ Len(last.pre) >= config.maxSize
             /\ ~MapHas(last.pre, last.key)
             /\ last.pre = <<>> )
    /\ last.result.tag = "CacheFullError"
       => /\ last.result.maxSize = config.maxSize
          /\ last.result.currentSize = Len(last.pre)
          /\ cacheRef = last.pre

\* C11: with enabled = false a set changes nothing: the map is always
\* empty, size() is 0, and a get(k) that follows a set(k, v) fails with
\* CacheMissError(k).
C11_DisabledStoresNothing ==
  ~config.enabled =>
    /\ cacheRef = <<>>
    /\ last.op = "set" => (last.result.tag = "void" /\ cacheRef = last.pre)
    /\ last.op = "size" => (last.result.tag = "value" /\ last.result.value = 0)
    /\ (prev.op = "set" /\ last.op = "get" /\ last.key = prev.key)
       => (last.result.tag = "CacheMissError" /\ last.result.key = last.key)

C11_Witness ==
  /\ ~config.enabled
  /\ prev.op = "set"
  /\ last.op = "get"
  /\ last.key = prev.key
  /\ last.result.tag = "CacheMissError"

\* C12: a set of a key that is in the map leaves the size as it was and
\* leaves the key's entry with accessCount 0, whatever the count was.
C12_OverwriteResetsCount ==
  (last.op = "set" /\ MapHas(last.pre, last.key))
  => /\ Len(cacheRef) = Len(last.pre)
     /\ MapHas(cacheRef, last.key)
     /\ MapGet(cacheRef, last.key).accessCount = 0

C12_Witness ==
  /\ last.op = "set"
  /\ MapHas(last.pre, last.key)
  /\ MapGet(last.pre, last.key).accessCount > 0
  /\ MapGet(cacheRef, last.key).accessCount = 0

\* C13: the accessCount of every entry is a non-negative integer, the
\* number of gets of its key that succeeded since the key was last set; a
\* get that succeeds raises the count of its key by exactly 1 and a get that
\* fails raises no count.
C13_CountIsReads ==
  /\ \A i \in 1..Len(cacheRef) :
       /\ cacheRef[i].accessCount \in Nat
       /\ cacheRef[i].accessCount = reads[cacheRef[i].key]
  /\ (last.op = "get" /\ last.result.tag = "value")
     => /\ MapHas(cacheRef, last.key)
        /\ MapGet(cacheRef, last.key).accessCount
             = MapGet(last.pre, last.key).accessCount + 1
  /\ last.op = "get"
     => \A i \in 1..Len(cacheRef) :
          (cacheRef[i].key # last.key \/ last.result.tag # "value")
          => cacheRef[i].accessCount
               = MapGet(last.pre, cacheRef[i].key).accessCount

C13_Witness ==
  /\ last.op = "get"
  /\ last.result.tag = "value"
  /\ MapGet(cacheRef, last.key).accessCount = 1
  /\ \E i \in 1..Len(cacheRef) :
       cacheRef[i].key # last.key /\ cacheRef[i].accessCount = 0

\* C14: clear succeeds from any state and leaves size() = 0; a get(k) that
\* follows it fails with CacheMissError(k), for every key k.
C14_ClearEmpties ==
  /\ last.op = "clear" => (last.result.tag = "void" /\ cacheRef = <<>>)
  /\ (prev.op = "clear" /\ last.op = "size")
     => (last.result.tag = "value" /\ last.result.value = 0)
  /\ (prev.op = "clear" /\ last.op = "get")
     => (last.result.tag = "CacheMissError" /\ last.result.key = last.key)

\* a key that the clear found in the map misses
C14_Witness ==
  /\ prev.op = "clear"
  /\ last.op = "get"
  /\ last.key \in prev.cleared
  /\ last.result.tag = "CacheMissError"

\* C15: every entry in the map has expiresAt = cachedAt + ttl, later than
\* its cachedAt.
C15_ExpiresAfterCached ==
  \A i \in 1..Len(cacheRef) :
    /\ cacheRef[i].expiresAt > cacheRef[i].cachedAt
    /\ cacheRef[i].expiresAt
         = cacheRef[i].cachedAt + config.ttlSeconds * 1000

C15_Witness ==
  \E i \in 1..Len(cacheRef) :
    /\ cacheRef[i].cachedAt > 0
    /\ cacheRef[i].expiresAt = cacheRef[i].cachedAt + config.ttlSeconds * 1000

\* C16: expiry is lazy: a step in which the clock moves leaves the map as
\* it is, and size() returns the number of entries in the map, the expired
\* ones included, without changing the map or failing.
C16_LazyExpiry ==
  [][ /\ clock' # clock => cacheRef' = cacheRef
      /\ last'.op = "size"
         => /\ last'.result.tag = "value"
            /\ last'.result.value = Len(cacheRef)
            /\ cacheRef' = cacheRef ]_vars

\* size() counts an entry whose ttl has elapsed
C16_Witness ==
  /\ last.op = "size"
  /\ last.result.tag = "value"
  /\ last.result.value = Len(cacheRef)
  /\ \E i \in 1..Len(cacheRef) : clock > cacheRef[i].expiresAt

\* C17: a call adds a key only if it is a set of that key, and removes a
\* key only if it is a clear, a get of that key that finds it expired, or a
\* set of another, new key on a map at capacity.
C17_KeyLifecycle ==
  last.op # "none" =>
    \A k \in MapKeys(last.pre) \cup MapKeys(cacheRef) :
      /\ (~MapHas(last.pre, k) /\ MapHas(cacheRef, k))
         => (last.op = "set" /\ last.key = k)
      /\ (MapHas(last.pre, k) /\ ~MapHas(cacheRef, k))
         => \/ last.op = "clear"
            \/ /\ last.op = "get"
               /\ last.key = k
               /\ last.result.tag = "CacheExpiredError"
            \/ /\ last.op = "set"
               /\ last.key # k
               /\ ~MapHas(last.pre, last.key)
               /\ Len(last.pre) >= config.maxSize

\* a set of a new key on a full map has replaced a key by its own
C17_Witness ==
  /\ last.op = "set"
  /\ MapHas(cacheRef, last.key)
  /\ ~MapHas(last.pre, last.key)
  /\ \E k \in MapKeys(last.pre) : ~MapHas(cacheRef, k)

\* C20: the expiry test is strict: a get of a stored key at a time now with
\* now <= expiresAt, now = expiresAt included, returns the value; only
\* now > expiresAt gives CacheExpiredError.
C20_StrictExpiry ==
  (last.op = "get" /\ MapHas(last.pre, last.key))
  => LET e == MapGet(last.pre, last.key) IN
     /\ clock <= e.expiresAt
        => (last.result.tag = "value" /\ last.result.value = e.value)
     /\ last.result.tag = "CacheExpiredError" <=> clock > e.expiresAt

C20_Witness ==
  /\ last.op = "get"
  /\ MapHas(last.pre, last.key)
  /\ clock = MapGet(last.pre, last.key).expiresAt
  /\ last.result.tag = "value"

\* C18: in getCurrentWeather and refreshWeather, a cache.set that fails does
\* not fail the call: whenever the API gave a reading, the call succeeds
\* with that reading, whatever the set did.
C18_SetFailureIgnored ==
  last.op \in {"getCurrentWeather", "refreshWeather"}
  => \A i \in 1..Len(last.calls) :
       (last.calls[i].op = "api" /\ last.calls[i].tag = "value")
       => /\ last.result.tag = "value"
          /\ last.result.value = last.calls[i].value

\* the set of a fresh reading failed with CacheFullError and the call
\* returned the reading
C18_Witness ==
  /\ last.op \in {"getCurrentWeather", "refreshWeather"}
  /\ last.result.tag = "value"
  /\ \E i \in 1..Len(last.calls) :
       /\ last.calls[i].op = "set"
       /\ last.calls[i].tag = "CacheFullError"
       /\ last.calls[i].value = last.result.value

\* C19: getCurrentWeather(location) first calls cache.get on
\* weather:<location.id>; on a hit that is its only call and it returns the
\* cached reading; on CacheMissError and CacheExpiredError alike it then
\* calls the API once and, the API having given a reading, calls cache.set
\* with the reading under the same key and returns the reading.
C19_CacheAside ==
  last.op = "getCurrentWeather"
  => LET c == last.calls
         key == "weather:" \o last.key
     IN /\ Len(c) >= 1
        /\ c[1].op = "get"
        /\ c[1].key = key
        /\ c[1].tag \in {"value", "CacheMissError", "CacheExpiredError"}
        /\ c[1].tag = "value"
           => /\ Len(c) = 1
              /\ \E i \in 1..Len(last.pre) :
                   /\ last.pre[i].key = key
                   /\ last.result = [tag |-> "value",
                                     value |-> last.pre[i].value]
        /\ c[1].tag \in {"CacheMissError", "CacheExpiredError"}
           => /\ Len(c) >= 2
              /\ c[2].op = "api"
              /\ c[2].key = last.key
              /\ \A i \in 3..Len(c) : c[i].op # "api"
              /\ c[2].tag = "value"
                 => /\ Len(c) = 3
                    /\ c[3].op = "set"
                    /\ c[3].key = key
                    /\ c[3].value = c[2].value
                    /\ last.result = [tag |-> "value", value |-> c[2].value]

\* an expired entry is treated as a miss: fetched, stored and returned
C19_Witness ==
  /\ last.op = "getCurrentWeather"
  /\ Len(last.calls) = 3
  /\ last.calls[1].tag = "CacheExpiredError"
  /\ last.calls[2].tag = "value"
  /\ last.calls[3].tag = "void"
  /\ last.result.tag = "value"
  /\ \E i \in 1..Len(cacheRef) :
       /\ cacheRef[i].key = "weather:" \o last.key
       /\ cacheRef[i].value = last.result.value

\* C21: a set of a key that is in the map, the map being at capacity,
\* evicts nothing: every other entry is in the map after the set, at its
\* place and as it was.
C21_OverwriteEvictsNothing ==
  ( /\ last.op = "set"
    /\ MapHas(last.pre, last.key)
    /\ Len(last.pre) >= config.maxSize )
  => /\ last.result.tag = "void"
     /\ Len(cacheRef) = Len(last.pre)
     /\ \A i \in 1..Len(last.pre) :
          IF last.pre[i].key = last.key
            THEN cacheRef[i].key = last.key
            ELSE cacheRef[i] = last.pre[i]

\* a full map of two entries, one of them overwritten
C21_Witness ==
  /\ last.op = "set"
  /\ Len(last.pre) = config.maxSize
  /\ Len(last.pre) > 1
  /\ \E i, j \in 1..Len(last.pre) :
       /\ last.pre[i].key = last.key
       /\ cacheRef[i].value = last.value
       /\ cacheRef[i] # last.pre[i]
       /\ j # i
       /\ cacheRef[j] = last.pre[j]

\* C22: a set of a key that is in the map restarts its ttl: the entry has
\* cachedAt = t1, the time of the set, and expiresAt = t1 + T, whatever
\* the times of the entry it replaces; a get of the key at a time up to
\* t1 + T is a hit, and a CacheExpiredError reports cachedAt = t1.
C22_OverwriteRestartsTtl ==
  /\ (last.op = "set" /\ config.enabled /\ MapHas(last.pre, last.key))
     => \E i \in 1..Len(cacheRef) :
          /\ cacheRef[i].key = last.key
          /\ cacheRef[i].cachedAt = clock
          /\ cacheRef[i].expiresAt = clock + config.ttlSeconds * 1000
  /\ (last.op = "get" /\ MapHas(last.pre, last.key))
     => \E i \in 1..Len(last.pre) :
          /\ last.pre[i].key = last.key
          /\ clock <= last.pre[i].cachedAt + config.ttlSeconds * 1000
             => last.result.tag = "value"
          /\ last.result.tag = "CacheExpiredError"
             => /\ last.result.cachedAt = last.pre[i].cachedAt
                /\ last.result.expiresAt
                     = last.pre[i].cachedAt + config.ttlSeconds * 1000
  /\ ( /\ prev.op = "set"
       /\ config.enabled
       /\ last.op = "get"
       /\ last.key = prev.key
       /\ MapHas(last.pre, last.key) )
     => last.result.tag = "value"

\* an entry whose ttl has elapsed is overwritten and is live again
C22_Witness ==
  /\ last.op = "set"
  /\ \E i \in 1..Len(last.pre) :
       /\ last.pre[i].key = last.key
       /\ clock > last.pre[i].expiresAt
       /\ cacheRef[i].key = last.key
       /\ cacheRef[i].cachedAt = clock
       /\ cacheRef[i].expiresAt > clock

\* C23: the entry that a set evicts is the first, in the order of the map,
\* of the entries with the lowest accessCount; the order of the map is the
\* order in which the keys were inserted: a new key goes last and a set of
\* a present key leaves it at its place.
C23_FirstOfTheLowest ==
  last.op = "set" =>
    /\ \A i \in 1..Len(last.pre) :
         ~MapHas(cacheRef, last.pre[i].key) =>
           \A j \in 1..Len(last.pre) :
             /\ last.pre[i].accessCount <= last.pre[j].accessCount
             /\ j < i => last.pre[i].accessCount < last.pre[j].accessCount
    /\ MapHas(last.pre, last.key)
       => /\ Len(cacheRef) = Len(last.pre)
          /\ \A i \in 1..Len(last.pre) : cacheRef[i].key = last.pre[i].key
    /\ (~MapHas(last.pre, last.key) /\ MapHas(cacheRef, last.key))
       => /\ cacheRef[Len(cacheRef)].key = last.key
          /\ \A i, j \in 1..Len(cacheRef) - 1 :
               i < j => \E m, n \in 1..Len(last.pre) :
                          /\ m < n
                          /\ last.pre[m] = cacheRef[i]
                          /\ last.pre[n] = cacheRef[j]

\* two entries with the same count: the first is evicted, although it was
\* overwritten after the second was inserted
C23_Witness ==
  /\ last.op = "set"
  /\ Len(last.pre) = 2
  /\ last.pre[1].accessCount = last.pre[2].accessCount
  /\ last.pre[1].cachedAt > last.pre[2].cachedAt
  /\ ~MapHas(cacheRef, last.pre[1].key)
  /\ MapHas(cacheRef, last.pre[2].key)
  /\ MapHas(cacheRef, last.key)

\* C26: a get that succeeds returns the value stored under its own key,
\* which is the value of the most recent set of the key: only a set of a
\* key puts or changes the value under the key, and the value it puts is
\* its argument.
C26_ReadsLatestSet ==
  /\ (last.op = "get" /\ last.result.tag = "value")
     => \E i \in 1..Len(last.pre) :
          /\ last.pre[i].key = last.key
          /\ last.pre[i].value = last.result.value
  /\ ( /\ prev.op = "set"
       /\ last.op = "get"
       /\ last.key = prev.key
       /\ last.result.tag = "value" )
     => last.result.value = prev.value
  /\ last.op # "none"
     => \A i \in 1..Len(cacheRef) :
          ( \A j \in 1..Len(last.pre) :
              last.pre[j].key = cacheRef[i].key
              => last.pre[j].value # cacheRef[i].value )
          => /\ last.op = "set"
             /\ last.key = cacheRef[i].key
             /\ last.value = cacheRef[i].value

\* the first key was set again after the second was inserted, and the get
\* that follows returns the value of that set, not the second key's
C26_Witness ==
  /\ prev.op = "set"
  /\ last.op = "get"
  /\ last.key = prev.key
  /\ last.result.tag = "value"
  /\ last.result.value = prev.value
  /\ Len(last.pre) = 2
  /\ last.pre[1].key = last.key
  /\ last.pre[1].cachedAt > last.pre[2].cachedAt
  /\ last.pre[2].value # prev.value

\* C27: a get that succeeds adds one to the accessCount of its key and
\* changes nothing else: the value and the times of the entry and every
\* other entry are as before; an entry that has been read still expires
\* when its ttl, counted from its cachedAt, has elapsed.
C27_ReadOnlyCounts ==
  /\ (last.op = "get" /\ last.result.tag = "value")
     => /\ Len(cacheRef) = Len(last.pre)
        /\ \A i \in 1..Len(last.pre) :
             /\ cacheRef[i].key = last.pre[i].key
             /\ cacheRef[i].value = last.pre[i].value
             /\ cacheRef[i].cachedAt = last.pre[i].cachedAt
             /\ cacheRef[i].expiresAt = last.pre[i].expiresAt
             /\ cacheRef[i].accessCount
                  = IF last.pre[i].key = last.key
                      THEN last.pre[i].accessCount + 1
                      ELSE last.pre[i].accessCount
  /\ last.op = "get"
     => \A i \in 1..Len(last.pre) :
          ( /\ last.pre[i].key = last.key
            /\ last.pre[i].accessCount > 0
            /\ clock > last.pre[i].cachedAt + config.ttlSeconds * 1000 )
          => last.result.tag = "CacheExpiredError"

\* an entry that was read is read again after its ttl and has expired
C27_Witness ==
  /\ last.op = "get"
  /\ last.result.tag = "CacheExpiredError"
  /\ \E i \in 1..Len(last.pre) :
       /\ last.pre[i].key = last.key
       /\ last.pre[i].accessCount > 0
       /\ last.pre[i].expiresAt
            = last.pre[i].cachedAt + config.ttlSeconds * 1000

\* C29: eviction ignores expiry: a set of a new key on a map at capacity,
\* in which an entry whose ttl has elapsed has a higher accessCount than a
\* live entry that is the first of the lowest, evicts the live entry and
\* keeps the expired one.
C29_EvictsLiveKeepsExpired ==
  ( /\ last.op = "set"
    /\ config.enabled
    /\ ~MapHas(last.pre, last.key)
    /\ Len(last.pre) >= config.maxSize )
  => \A i, j \in 1..Len(last.pre) :
       ( /\ clock > last.pre[i].expiresAt
         /\ clock <= last.pre[j].expiresAt
         /\ last.pre[i].accessCount > last.pre[j].accessCount
         /\ \A m \in 1..Len(last.pre) :
              /\ last.pre[j].accessCount <= last.pre[m].accessCount
              /\ m < j => last.pre[j].accessCount < last.pre[m].accessCount )
       => /\ last.result.tag = "void"
          /\ ~MapHas(cacheRef, last.pre[j].key)
          /\ \E n \in 1..Len(cacheRef) : cacheRef[n] = last.pre[i]

\* C24: when the call of the API in getCurrentWeather or refreshWeather
\* fails, the call fails with the error of the API as it is, cache.set is
\* not called, and the map is the one the fetch found: the map before the
\* call, less the expired entry that the cache.get of getCurrentWeather
\* removed.
C24_ApiFailurePropagates ==
  last.op \in {"getCurrentWeather", "refreshWeather"}
  => \A i \in 1..Len(last.calls) :
       ( /\ last.calls[i].op = "api"
         /\ last.calls[i].tag # "value" )
       => /\ last.result = [tag |-> last.calls[i].tag]
          /\ last.result.tag \in {"NetworkError", "HttpError",
                                  "RateLimitError", "InvalidResponseError",
                                  "TimeoutError"}
          /\ i = Len(last.calls)
          /\ \A j \in 1..Len(last.calls) : last.calls[j].op # "set"
          /\ cacheRef
               = IF \E j \in 1..Len(last.calls) :
                      /\ last.calls[j].op = "get"
                      /\ last.calls[j].tag = "CacheExpiredError"
                   THEN SelectSeq(last.pre,
                                  LAMBDA e : e.key # "weather:" \o last.key)
                   ELSE last.pre

\* a refresh fails while the location has an entry: the entry is still there
C24_Witness ==
  /\ last.op = "refreshWeather"
  /\ last.result.tag = "TimeoutError"
  /\ \E i \in 1..Len(last.pre) : last.pre[i].key = "weather:" \o last.key
  /\ cacheRef = last.pre

\* C25: refreshWeather(location) makes no cache.get: it calls the API
\* first, an entry for the location being live or not, and stores a reading
\* under weather:<location.id>; with the cache enabled and the set
\* successful, a getCurrentWeather for the location that follows at once
\* returns that reading from the cache, without a call of the API.
C25_RefreshBypassesCache ==
  /\ last.op = "refreshWeather"
     => /\ Len(last.calls) >= 1
        /\ last.calls[1].op = "api"
        /\ last.calls[1].key = last.key
        /\ \A i \in 1..Len(last.calls) : last.calls[i].op # "get"
        /\ last.calls[1].tag = "value"
           => /\ Len(last.calls) = 2
              /\ last.calls[2].op = "set"
              /\ last.calls[2].key = "weather:" \o last.key
              /\ last.calls[2].value = last.calls[1].value
  /\ ( /\ prev.op = "refreshWeather"
       /\ prev.tag = "value"
       /\ prev.stored
       /\ config.enabled
       /\ last.op = "getCurrentWeather"
       /\ last.key = prev.key )
     => /\ last.result = [tag |-> "value", value |-> prev.value]
        /\ Len(last.calls) = 1
        /\ last.calls[1].op = "get"
        /\ last.calls[1].tag = "value"

\* a refresh has stored its reading, and the getCurrentWeather that
\* follows returns that reading from the cache
C25_Witness ==
  /\ prev.op = "refreshWeather"
  /\ prev.stored
  /\ last.op = "getCurrentWeather"
  /\ last.key = prev.key
  /\ Len(last.calls) = 1
  /\ last.result.tag = "value"
  /\ last.result.value = prev.value
  /\ \E i \in 1..Len(last.pre) :
       /\ last.pre[i].key = "weather:" \o last.key
       /\ last.pre[i].value = prev.value
       /\ last.pre[i].cachedAt = clock

\* C28: the delete of a get that found its key expired removes only the
\* entry the get observed: an entry that a set of another fiber has stored
\* under the key since the get read the map is in the map after the delete.
C28_DeleteSparesFreshEntry ==
  [][ \A f \in Fibers :
        (fiber[f].pc = "get_delete" /\ fiber'[f].pc = "done")
        => \A i \in 1..Len(cacheRef) :
             ( /\ cacheRef[i].key = fiber[f].key
               /\ cacheRef[i].cachedAt > fiber[f].entry.cachedAt )
             => \E j \in 1..Len(cacheRef') : cacheRef'[j] = cacheRef[i] ]_vars

====
